---- MODULE Spec2Model ----
(***************************************************************************)
(* scripts/convert_lerobot_weights.py as a state machine.                   *)
(*                                                                         *)
(* One invocation of convert_lerobot_weights is a linear pipeline; pc is    *)
(* the position inside it.  The file system is two directories: the source *)
(* directory (src) and the output directory (out).  Tensor names are        *)
(* sequences of one-character strings, so that startswith and the slice     *)
(* key[6:] are computed, not assumed.  Python dicts are sequences of        *)
(* <<key, value>> pairs with unique keys (insertion order, assignment to an *)
(* existing key replaces the value in place).                               *)
(*                                                                         *)
(* Not modelled: faults of the operating system (disk full, permission      *)
(* denied), JSON documents whose top level or feature tables are not        *)
(* objects, file metadata, and an output directory that is the source       *)
(* directory itself.                                                        *)
(***************************************************************************)
EXTENDS Integers, Sequences, FiniteSets, TLC

VARIABLES
    pc,                   \* position in convert_lerobot_weights
    run,                  \* 1: first invocation, 2: invocation on the first one's output
    err,                  \* the exception that ended the run, or "none"
    input_path,           \* the argument input_path, a path (sequence of names)
    src,                  \* the source directory's contents
    out,                  \* the output directory's contents
    out0,                 \* the output directory as it was when the run started
    input_file,           \* local: the resolved tensor file
    input_dir,            \* local: the directory of configs and companions
    state_dict,           \* local: the loaded tensors
    converted_state_dict, \* local: the tensors under their rewritten names
    i,                    \* local: index into files_to_copy
    written               \* the outputs this run has produced, in order

vars == <<pc, run, err, input_path, src, out, out0, input_file, input_dir,
          state_dict, converted_state_dict, i, written>>

----------------------------------------------------------------------------
(* Bounds *)

MaxNest == 2
MaxTensors == 2
MaxFeat == 3
MaxSteps == 2

----------------------------------------------------------------------------
(* Python dict and str primitives *)

EmptyFn == [x \in {} |-> x]

DictKeys(d) == {d[n][1] : n \in DOMAIN d}

DictHas(d, k) == \E n \in DOMAIN d : d[n][1] = k

DictGet(d, k) == d[CHOOSE n \in DOMAIN d : d[n][1] = k][2]

\* d[k] = v
DictSet(d, k, v) ==
    IF DictHas(d, k)
    THEN [n \in DOMAIN d |-> IF d[n][1] = k THEN <<k, v>> ELSE d[n]]
    ELSE Append(d, <<k, v>>)

\* s.startswith(p)
startswith(s, p) == Len(s) >= Len(p) /\ SubSeq(s, 1, Len(p)) = p

\* s[n:]
SliceFrom(s, n) == SubSeq(s, n + 1, Len(s))

----------------------------------------------------------------------------
(* The key rewrite *)

ModelPrefix == <<"m", "o", "d", "e", "l", ".">>

StripLen == 6

\* faulty variant: the slice is one character short
NewKeyCut5(key) == IF startswith(key, ModelPrefix) THEN SliceFrom(key, 5) ELSE key

\* faulty variant: the slice is taken without testing for the prefix
NewKeyAlwaysSlice(key) == SliceFrom(key, StripLen)

\* the key one tensor is stored under
NewKey(key) == IF startswith(key, ModelPrefix) THEN SliceFrom(key, StripLen) ELSE key

RECURSIVE RewriteLoop(_, _, _)
RewriteLoop(items, n, acc) ==
    IF n > Len(items) THEN acc
    ELSE RewriteLoop(items, n + 1, DictSet(acc, NewKey(items[n][1]), items[n][2]))

\* faulty variant: a name already stored is not overwritten
RewriteKeysFirstWins(sd) ==
    LET RECURSIVE Loop(_, _)
        Loop(n, acc) ==
            IF n > Len(sd) THEN acc
            ELSE Loop(n + 1, IF DictHas(acc, NewKey(sd[n][1])) THEN acc
                             ELSE DictSet(acc, NewKey(sd[n][1]), sd[n][2]))
    IN Loop(1, <<>>)

\* faulty variant: the else branch is missing, unprefixed names are dropped
RewriteKeysPrefixedOnly(sd) ==
    LET RECURSIVE Loop(_, _)
        Loop(n, acc) ==
            IF n > Len(sd) THEN acc
            ELSE Loop(n + 1, IF startswith(sd[n][1], ModelPrefix)
                             THEN DictSet(acc, NewKey(sd[n][1]), sd[n][2])
                             ELSE acc)
    IN Loop(1, <<>>)

RewriteKeys(sd) == RewriteLoop(sd, 1, <<>>)

RECURSIVE LoadLoop(_, _, _, _)
LoadLoop(keys, arch, n, acc) ==
    IF n > Len(keys) THEN acc
    ELSE LoadLoop(keys, arch, n + 1, DictSet(acc, keys[n], arch[keys[n]]))

\* the orders in which a reader may list the names of an archive
ReaderOrders(arch) ==
    {o \in [1..Cardinality(DOMAIN arch) -> DOMAIN arch] :
        \A a, b \in DOMAIN o : a # b => o[a] # o[b]}

\* what save_file stores: one entry per key of the dict
SaveFile(d) == [k \in DictKeys(d) |-> DictGet(d, k)]

----------------------------------------------------------------------------
(* _transform_config_keys and _transform_preprocessor_json *)

\* config with config[field] = value
WithField(config, field, value) ==
    [f \in DOMAIN config \cup {field} |-> IF f = field THEN value ELSE config[f]]

RECURSIVE InputFeaturesLoop(_, _, _)
InputFeaturesLoop(items, n, new_input_features) ==
    IF n > Len(items) THEN new_input_features
    ELSE LET key == items[n][1]
             value == items[n][2]
         IN InputFeaturesLoop(items, n + 1,
                IF key = "observation.images.scene"
                THEN DictSet(new_input_features, "observation/image", value)
                ELSE IF key = "observation.images.gripper"
                THEN DictSet(new_input_features, "observation/wrist_image", value)
                ELSE IF key = "observation.state"
                THEN DictSet(new_input_features, "observation/state", value)
                ELSE DictSet(new_input_features, key, value))

RECURSIVE OutputFeaturesLoop(_, _, _)
OutputFeaturesLoop(items, n, new_output_features) ==
    IF n > Len(items) THEN new_output_features
    ELSE LET key == items[n][1]
             value == items[n][2]
         IN OutputFeaturesLoop(items, n + 1,
                IF key = "action"
                THEN DictSet(new_output_features, "actions", value)
                ELSE DictSet(new_output_features, key, value))

\* faulty variant: a remap table whose target "observation.state" is itself a table key
TransformConfigKeysChained(config) ==
    LET RECURSIVE Loop(_, _, _)
        Loop(items, n, acc) ==
            IF n > Len(items) THEN acc
            ELSE LET key == items[n][1]
                     value == items[n][2]
                 IN Loop(items, n + 1,
                        IF key = "observation.images.scene"
                        THEN DictSet(acc, "observation.state", value)
                        ELSE IF key = "observation.state"
                        THEN DictSet(acc, "observation/state", value)
                        ELSE DictSet(acc, key, value))
    IN IF "input_features" \in DOMAIN config
       THEN WithField(config, "input_features", Loop(config["input_features"], 1, <<>>))
       ELSE config

_transform_config_keys(config) ==
    LET c1 == IF "input_features" \in DOMAIN config
              THEN WithField(config, "input_features",
                             InputFeaturesLoop(config["input_features"], 1, <<>>))
              ELSE config
    IN IF "output_features" \in DOMAIN c1
       THEN WithField(c1, "output_features",
                      OutputFeaturesLoop(c1["output_features"], 1, <<>>))
       ELSE c1

RECURSIVE NormalizerFeaturesLoop(_, _, _)
NormalizerFeaturesLoop(items, n, new_features) ==
    IF n > Len(items) THEN new_features
    ELSE LET key == items[n][1]
             value == items[n][2]
         IN NormalizerFeaturesLoop(items, n + 1,
                IF key = "observation.images.scene"
                THEN DictSet(new_features, "observation/image", value)
                ELSE IF key = "observation.images.gripper"
                THEN DictSet(new_features, "observation/wrist_image", value)
                ELSE IF key = "observation.state"
                THEN DictSet(new_features, "observation/state", value)
                ELSE DictSet(new_features, key, value))

\* step.get("registry_name") == "normalizer_processor"
IsNormalizerStep(step) ==
    "registry_name" \in DOMAIN step /\ step["registry_name"] = "normalizer_processor"

\* faulty variant: the registry_name test is missing
TransformStepAnyRegistry(step) ==
    IF "config" \in DOMAIN step /\ "features" \in DOMAIN step["config"]
    THEN WithField(step, "config",
             WithField(step["config"], "features",
                 NormalizerFeaturesLoop(step["config"]["features"], 1, <<>>)))
    ELSE step

\* one iteration of the loop over preprocessor["steps"]
TransformStep(step) ==
    IF IsNormalizerStep(step)
    THEN IF "config" \in DOMAIN step /\ "features" \in DOMAIN step["config"]
         THEN WithField(step, "config",
                  WithField(step["config"], "features",
                      NormalizerFeaturesLoop(step["config"]["features"], 1, <<>>)))
         ELSE step
    ELSE step

_transform_preprocessor_json(preprocessor) ==
    IF "steps" \in DOMAIN preprocessor
    THEN WithField(preprocessor, "steps",
             [n \in DOMAIN preprocessor["steps"] |-> TransformStep(preprocessor["steps"][n])])
    ELSE preprocessor

----------------------------------------------------------------------------
(* Files and directories *)

\* faulty variant: the first two entries are exchanged
files_to_copy_reordered ==
    << "policy_postprocessor.json",
       "train_config.json",
       "policy_preprocessor_step_2_normalizer_processor.safetensors",
       "policy_postprocessor_step_0_unnormalizer_processor.safetensors" >>

files_to_copy ==
    << "train_config.json",
       "policy_postprocessor.json",
       "policy_preprocessor_step_2_normalizer_processor.safetensors",
       "policy_postprocessor_step_0_unnormalizer_processor.safetensors" >>

AuxNames == {files_to_copy[n] : n \in DOMAIN files_to_copy}

\* a JSON file: absent, present but not parseable, or present with a document
NoDoc == [exists |-> FALSE, ok |-> FALSE, doc |-> EmptyFn]
Malformed == [exists |-> TRUE, ok |-> FALSE, doc |-> EmptyFn]
Doc(d) == [exists |-> TRUE, ok |-> TRUE, doc |-> d]

NoArchive == [exists |-> FALSE, data |-> EmptyFn]
NoAssets == [exists |-> FALSE, files |-> EmptyFn]
NoAux == [f \in AuxNames |-> "none"]

\* an output directory that does not exist
NoDir == [exists |-> FALSE, model |-> NoArchive, config |-> NoDoc,
          preprocessor |-> NoDoc, aux |-> NoAux, assets |-> NoAssets]

EmptyDir == [NoDir EXCEPT !.exists = TRUE]

\* Path(input_path).is_dir(): a directory is a one-name path, a file in it a two-name path
is_dir(path) == Len(path) = 1

\* Path.parent
Parent(path) == SubSeq(path, 1, Len(path) - 1)

\* Path.exists() for the resolved tensor file
FileExists(path) == Len(path) = 2 /\ path[2] \in DOMAIN src.arch

\* faulty variant: the canonical name is used for a file argument too
ResolveFileAlwaysCanonical(path) == Append(Parent(path), "model.safetensors")

\* input_file of input_path
ResolveFile(path) == IF is_dir(path) THEN Append(path, "model.safetensors") ELSE path

\* input_dir of input_path
ResolveDir(path) == IF is_dir(path) THEN path ELSE Parent(path)

\* shutil.copytree(..., dirs_exist_ok=True): the source tree laid over the destination
CopyTree(from, to) ==
    [exists |-> TRUE,
     files |-> [f \in DOMAIN from.files \cup DOMAIN to.files |->
                   IF f \in DOMAIN from.files THEN from.files[f] ELSE to.files[f]]]

----------------------------------------------------------------------------
(* convert_lerobot_weights, step by step.  src is the content of input_dir: the *)
(* tensor files by name (arch) and the optional companions.                  *)

locals == <<input_file, input_dir, state_dict, converted_state_dict, i>>
world == <<run, input_path, src, out0>>

Fail(e) == pc' = "failed" /\ err' = e

\* lines 97-106
Resolve ==
    /\ pc = "resolve"
    /\ input_file' = ResolveFile(input_path)
    /\ input_dir' = ResolveDir(input_path)
    /\ IF FileExists(ResolveFile(input_path))
       THEN pc' = "load" /\ err' = err
       ELSE Fail("FileNotFoundError")
    /\ UNCHANGED <<world, out, state_dict, converted_state_dict, i, written>>

\* lines 111-116
Load ==
    /\ pc = "load"
    /\ \E keys \in ReaderOrders(src.arch[input_file[2]]) :
          state_dict' = LoadLoop(keys, src.arch[input_file[2]], 1, <<>>)
    /\ pc' = "rewrite"
    /\ UNCHANGED <<world, err, out, input_file, input_dir, converted_state_dict, i, written>>

\* lines 119-127
Rewrite ==
    /\ pc = "rewrite"
    /\ converted_state_dict' = RewriteKeys(state_dict)
    /\ pc' = "mkdir"
    /\ UNCHANGED <<world, err, out, input_file, input_dir, state_dict, i, written>>

\* lines 130-131
Mkdir ==
    /\ pc = "mkdir"
    /\ out' = [out EXCEPT !.exists = TRUE]
    /\ written' = Append(written, "output_dir")
    /\ pc' = "save"
    /\ UNCHANGED <<world, err, locals>>

\* lines 134-136
Save ==
    /\ pc = "save"
    /\ out' = [out EXCEPT !.model = [exists |-> TRUE, data |-> SaveFile(converted_state_dict)]]
    /\ written' = Append(written, "model.safetensors")
    /\ pc' = "config"
    /\ UNCHANGED <<world, err, locals>>

\* lines 142-150
Config ==
    /\ pc = "config"
    /\ IF ~src.config.exists
       THEN pc' = "preprocessor" /\ UNCHANGED <<err, out, written>>
       ELSE IF ~src.config.ok
       THEN Fail("JSONDecodeError") /\ UNCHANGED <<out, written>>
       ELSE /\ out' = [out EXCEPT !.config = Doc(_transform_config_keys(src.config.doc))]
            /\ written' = Append(written, "config.json")
            /\ pc' = "preprocessor"
            /\ err' = err
    /\ UNCHANGED <<world, locals>>

\* lines 153-161
Preprocessor ==
    /\ pc = "preprocessor"
    /\ IF ~src.preprocessor.exists
       THEN pc' = "copy" /\ UNCHANGED <<err, out, written>>
       ELSE IF ~src.preprocessor.ok
       THEN Fail("JSONDecodeError") /\ UNCHANGED <<out, written>>
       ELSE /\ out' = [out EXCEPT !.preprocessor =
                          Doc(_transform_preprocessor_json(src.preprocessor.doc))]
            /\ written' = Append(written, "policy_preprocessor.json")
            /\ pc' = "copy"
            /\ err' = err
    /\ i' = 1
    /\ UNCHANGED <<world, input_file, input_dir, state_dict, converted_state_dict>>

\* faulty variant: an absent companion raises instead of being skipped
CopyFileStrict ==
    /\ pc = "copy"
    /\ i <= Len(files_to_copy)
    /\ LET filename == files_to_copy[i]
       IN IF src.aux[filename] # "none"
          THEN /\ out' = [out EXCEPT !.aux[filename] = src.aux[filename]]
               /\ written' = Append(written, filename)
               /\ UNCHANGED <<pc, err>>
          ELSE Fail("FileNotFoundError") /\ UNCHANGED <<out, written>>
    /\ i' = i + 1
    /\ UNCHANGED <<world, input_file, input_dir, state_dict, converted_state_dict>>

\* lines 171-176, one iteration
CopyFile ==
    /\ pc = "copy"
    /\ i <= Len(files_to_copy)
    /\ LET filename == files_to_copy[i]
       IN IF src.aux[filename] # "none"
          THEN /\ out' = [out EXCEPT !.aux[filename] = src.aux[filename]]
               /\ written' = Append(written, filename)
          ELSE UNCHANGED <<out, written>>
    /\ i' = i + 1
    /\ UNCHANGED <<world, pc, err, input_file, input_dir, state_dict, converted_state_dict>>

\* lines 179-186
CopyAssets ==
    /\ pc = "copy"
    /\ i > Len(files_to_copy)
    /\ IF src.assets.exists
       THEN /\ out' = [out EXCEPT !.assets = CopyTree(src.assets, out.assets)]
            /\ written' = Append(written, "assets")
       ELSE UNCHANGED <<out, written>>
    /\ pc' = "done"
    /\ UNCHANGED <<world, err, locals>>

\* the converter started again, on the directory the first run produced
Rerun ==
    /\ pc = "done"
    /\ run = 1
    /\ run' = 2
    /\ input_path' = <<"converted">>
    /\ src' = [arch |-> [f \in {"model.safetensors"} |-> out.model.data],
               config |-> out.config,
               preprocessor |-> out.preprocessor,
               aux |-> out.aux,
               assets |-> out.assets]
    /\ out' = NoDir
    /\ out0' = NoDir
    /\ pc' = "resolve"
    /\ err' = "none"
    /\ input_file' = <<>>
    /\ input_dir' = <<>>
    /\ state_dict' = <<>>
    /\ converted_state_dict' = <<>>
    /\ i' = 0
    /\ written' = <<>>

Next ==
    \/ Resolve
    \/ Load
    \/ Rewrite
    \/ Mkdir
    \/ Save
    \/ Config
    \/ Preprocessor
    \/ CopyFile
    \/ CopyAssets
    \/ Rerun

----------------------------------------------------------------------------
(* The inputs a run may be given *)

\* all sequences without repetition over S, of length at most n
RECURSIVE InjSeqs(_, _)
InjSeqs(S, n) ==
    IF n = 0 THEN {<<>>}
    ELSE LET shorter == InjSeqs(S, n - 1)
         IN shorter \cup UNION {{Append(q, x) : x \in S \ {q[a] : a \in DOMAIN q}} :
                                    q \in shorter}

\* a feature table with these keys in this order; the n-th entry's value is n
FeatureDict(keys) == [n \in DOMAIN keys |-> <<keys[n], n>>]

RECURSIVE Nest(_, _)
Nest(n, tail) == IF n = 0 THEN tail ELSE ModelPrefix \o Nest(n - 1, tail)

\* tensor names: a tail under 0..MaxNest prefixes, and names that only resemble the prefix
KeyPool ==
    {Nest(n, tail) : n \in 0..MaxNest, tail \in {<<"w">>, <<"b">>}}
    \cup { ModelPrefix,
           <<"m", "o", "d", "e", "l">>,
           <<"M", "o", "d", "e", "l", ".", "w">>,
           <<"a", ".", "m", "o", "d", "e", "l", ".", "w">> }

Values == {"T1", "T2"}

Archives ==
    UNION {[S -> Values] : S \in {S \in SUBSET KeyPool : Cardinality(S) <= MaxTensors}}

InFeatureKeys ==
    {"observation.images.scene", "observation.images.gripper", "observation.state",
     "observation/image", "observation/state", "action", "extra"}

OutFeatureKeys == {"action", "actions", "observation.state"}

Optional(S) == {<<FALSE, <<>>>>} \cup {<<TRUE, x>> : x \in S}

ConfigDoc(inF, outF) ==
    LET base == [f \in {"type"} |-> "pi0"]
        c1 == IF inF[1] THEN WithField(base, "input_features", inF[2]) ELSE base
    IN IF outF[1] THEN WithField(c1, "output_features", outF[2]) ELSE c1

SampleInFeatures == FeatureDict(<<"observation.images.scene", "observation.state">>)

SampleOutFeatures == FeatureDict(<<"action">>)

ConfigDocs ==
    {ConfigDoc(inF, outF) :
        inF \in Optional({FeatureDict(q) : q \in InjSeqs(InFeatureKeys, MaxFeat)}),
        outF \in Optional({SampleOutFeatures})}
    \cup
    {ConfigDoc(inF, outF) :
        inF \in Optional({SampleInFeatures}),
        outF \in Optional({FeatureDict(q) : q \in InjSeqs(OutFeatureKeys, MaxFeat)})}

StepFeatureDicts ==
    { FeatureDict(<<"observation.images.scene", "observation.images.gripper",
                    "observation.state">>),
      FeatureDict(<<"action", "extra">>),
      FeatureDict(<<"observation/image", "observation.images.scene">>),
      FeatureDict(<<"observation.images.scene", "observation/image">>) }

StepConfigs ==
    {[f \in {"eps"} |-> "1e-8"]}
    \cup {[f \in {"eps", "features"} |-> IF f = "eps" THEN "1e-8" ELSE d] :
             d \in StepFeatureDicts}

PreprocessorStep(reg, cfg) ==
    LET base == [f \in {"tag"} |-> "t"]
        s1 == IF reg[1] THEN WithField(base, "registry_name", reg[2]) ELSE base
    IN IF cfg[1] THEN WithField(s1, "config", cfg[2]) ELSE s1

StepPool ==
    {PreprocessorStep(reg, cfg) :
        reg \in Optional({"normalizer_processor", "device_processor"}),
        cfg \in Optional(StepConfigs)}

PreprocessorDocs ==
    {[f \in {"name"} |-> "policy_preprocessor"]}
    \cup {[f \in {"name", "steps"} |-> IF f = "name" THEN "policy_preprocessor" ELSE q] :
             q \in InjSeqs(StepPool, MaxSteps)}

SampleArchive ==
    [k \in {ModelPrefix \o <<"w">>, <<"b">>} |-> IF k = <<"b">> THEN "T2" ELSE "T1"]

SampleConfig ==
    ConfigDoc(<<TRUE, SampleInFeatures>>, <<TRUE, SampleOutFeatures>>)

SamplePreprocessor ==
    [f \in {"name", "steps"} |->
        IF f = "name" THEN "policy_preprocessor"
        ELSE << PreprocessorStep(<<TRUE, "normalizer_processor">>,
                    <<TRUE, [g \in {"eps", "features"} |->
                                IF g = "eps" THEN "1e-8"
                                ELSE FeatureDict(<<"observation.images.scene", "action">>)]>>) >>]

SampleAssets == [exists |-> TRUE, files |-> [f \in {"norm_stats.json"} |-> "bytes"]]

\* an output directory left by an earlier, unrelated conversion
StaleDir ==
    [exists |-> TRUE,
     model |-> [exists |-> TRUE, data |-> [k \in {<<"o", "l", "d">>} |-> "T2"]],
     config |-> Doc([f \in {"type"} |-> "old"]),
     preprocessor |-> Doc([f \in {"name"} |-> "old"]),
     aux |-> [f \in AuxNames |-> "stale"],
     assets |-> [exists |-> TRUE,
                 files |-> [f \in {"norm_stats.json", "old.bin"} |-> "stale"]]]

SrcDir == <<"checkpoint">>

InitLocals ==
    /\ pc = "resolve"
    /\ run = 1
    /\ err = "none"
    /\ out0 = out
    /\ input_file = <<>>
    /\ input_dir = <<>>
    /\ state_dict = <<>>
    /\ converted_state_dict = <<>>
    /\ i = 0
    /\ written = <<>>

\* the file system varies, the tensors are a sample
Init ==
    /\ input_path \in {SrcDir, Append(SrcDir, "model.safetensors"),
                       Append(SrcDir, "pi0.safetensors")}
    /\ \E names \in SUBSET {"model.safetensors", "pi0.safetensors"},
          config \in {NoDoc, Malformed, Doc(SampleConfig)},
          preprocessor \in {NoDoc, Malformed, Doc(SamplePreprocessor)},
          aux \in [AuxNames -> {"none", "bytes"}],
          assets \in {NoAssets, SampleAssets} :
          src = [arch |-> [f \in names |-> SampleArchive],
                 config |-> config,
                 preprocessor |-> preprocessor,
                 aux |-> aux,
                 assets |-> assets]
    /\ out \in {NoDir, EmptyDir, StaleDir}
    /\ InitLocals

\* the tensors vary, there are no companions
InitTensors ==
    /\ input_path = SrcDir
    /\ \E a \in Archives :
          src = [arch |-> [f \in {"model.safetensors"} |-> a],
                 config |-> NoDoc,
                 preprocessor |-> NoDoc,
                 aux |-> NoAux,
                 assets |-> NoAssets]
    /\ out = NoDir
    /\ InitLocals

\* the JSON documents vary
InitDocs ==
    /\ input_path = SrcDir
    /\ \E config \in {NoDoc} \cup {Doc(d) : d \in ConfigDocs},
          preprocessor \in {NoDoc} \cup {Doc(d) : d \in PreprocessorDocs} :
          /\ config \in {NoDoc, Doc(SampleConfig)} \/ preprocessor \in {NoDoc, Doc(SamplePreprocessor)}
          /\ src = [arch |-> [f \in {"model.safetensors"} |-> SampleArchive],
                    config |-> config,
                    preprocessor |-> preprocessor,
                    aux |-> NoAux,
                    assets |-> NoAssets]
    /\ out = NoDir
    /\ InitLocals

Spec == Init /\ [][Next]_vars

SpecTensors == InitTensors /\ [][Next]_vars

SpecDocs == InitDocs /\ [][Next]_vars

----------------------------------------------------------------------------
(* Tensor names: claims C1, C3, C4, C8 (specification SpecTensors) *)

\* the tensor archive the run was given, and the one it has written
GivenArchive == src.arch[input_file[2]]
Saved == \E n \in DOMAIN written : written[n] = "model.safetensors"
SavedArchive == out.model.data

\* the rewrite rule as the specification words it: a name that begins with the six
\* characters m,o,d,e,l,. loses its first six characters, any other name is kept
BeginsWithModelDot(k) ==
    /\ Len(k) >= 6
    /\ k[1] = "m" /\ k[2] = "o" /\ k[3] = "d" /\ k[4] = "e" /\ k[5] = "l" /\ k[6] = "."

ExpectedKey(k) ==
    IF BeginsWithModelDot(k) THEN [n \in 1..(Len(k) - 6) |-> k[n + 6]] ELSE k

NoCollision(a) ==
    \A k1, k2 \in DOMAIN a : k1 # k2 => ExpectedKey(k1) # ExpectedKey(k2)

\* C1: once the archive is written, every input name k appears in it as k without its
\* first six characters when k begins with "model.", and as k otherwise; when no two
\* input names are rewritten to the same name each output name holds the tensor its
\* input name held; and the archive holds no name that is not the rewrite of an input name.
C1_KeyRewrite ==
    Saved =>
        /\ \A k \in DOMAIN GivenArchive : ExpectedKey(k) \in DOMAIN SavedArchive
        /\ NoCollision(GivenArchive) =>
              \A k \in DOMAIN GivenArchive : SavedArchive[ExpectedKey(k)] = GivenArchive[k]
        /\ \A k2 \in DOMAIN SavedArchive :
              \E k \in DOMAIN GivenArchive : k2 = ExpectedKey(k)

C1_Witness ==
    /\ Saved
    /\ run = 1
    /\ NoCollision(GivenArchive)
    /\ \E k1, k2 \in DOMAIN GivenArchive :
          /\ BeginsWithModelDot(k1)
          /\ ~BeginsWithModelDot(k2)
          /\ GivenArchive[k1] # GivenArchive[k2]
          /\ SavedArchive[ExpectedKey(k1)] = GivenArchive[k1]
          /\ SavedArchive[k2] = GivenArchive[k2]

\* C3: after a completed conversion in which no two input names are rewritten to the
\* same name, the output archive holds as many tensors as the input archive.
C3_CountPreserved ==
    (pc = "done" /\ NoCollision(GivenArchive)) =>
        Cardinality(DOMAIN SavedArchive) = Cardinality(DOMAIN GivenArchive)

C3_Witness ==
    /\ pc = "done"
    /\ run = 1
    /\ NoCollision(GivenArchive)
    /\ Cardinality(DOMAIN GivenArchive) >= 2
    /\ Cardinality(DOMAIN SavedArchive) = Cardinality(DOMAIN GivenArchive)
    /\ \E k \in DOMAIN GivenArchive : BeginsWithModelDot(k)
    /\ \E k \in DOMAIN GivenArchive : ~BeginsWithModelDot(k)

\* C4 as claimed: the second run, given the first run's output, writes an archive
\* identical to the one it was given, whatever the first run's input was.
C4_IdempotentAlways ==
    (run = 2 /\ pc = "done") => SavedArchive = GivenArchive

\* C4 as amended: the second run writes an archive identical to the one it was given
\* whenever no name in the first run's output still begins with "model." (that is,
\* no name of the first run's input began with "model.model.").
C4_IdempotentOnStripped ==
    (run = 2 /\ pc = "done" /\ \A k \in DOMAIN GivenArchive : ~BeginsWithModelDot(k))
        => SavedArchive = GivenArchive

C4_Witness ==
    /\ run = 2
    /\ pc = "done"
    /\ \A k \in DOMAIN GivenArchive : ~BeginsWithModelDot(k)
    /\ Cardinality(DOMAIN GivenArchive) >= 2
    /\ SavedArchive = GivenArchive

\* positions of state_dict (the reader's order) whose names are rewritten to one name
Colliding(a, b) ==
    /\ a \in DOMAIN state_dict
    /\ b \in DOMAIN state_dict
    /\ a < b
    /\ ExpectedKey(state_dict[a][1]) = ExpectedKey(state_dict[b][1])

\* C8: when two input names are rewritten to the same name the run does not fail and
\* does not stop before its end; the written archive holds the name bound to the
\* value of the colliding name that comes later in the reader's order, and holds
\* fewer tensors than the input.
C8_LaterWins ==
    \A a, b \in DOMAIN state_dict :
        Colliding(a, b) =>
            /\ pc # "failed"
            /\ err = "none"
            /\ pc # "done" => ENABLED Next
            /\ Saved =>
                  /\ Cardinality({n \in DOMAIN converted_state_dict :
                         converted_state_dict[n][1] = ExpectedKey(state_dict[b][1])}) = 1
                  /\ SavedArchive[ExpectedKey(state_dict[b][1])] = state_dict[b][2]
                  /\ Cardinality(DOMAIN SavedArchive) < Cardinality(DOMAIN GivenArchive)

C8_Witness ==
    /\ pc = "done"
    /\ run = 1
    /\ \E a, b \in DOMAIN state_dict :
          /\ Colliding(a, b)
          /\ state_dict[a][2] # state_dict[b][2]
          /\ SavedArchive[ExpectedKey(state_dict[b][1])] = state_dict[b][2]
          /\ Cardinality(DOMAIN SavedArchive) = 1

----------------------------------------------------------------------------
(* JSON documents: claims C2, C5, C9 (specification SpecDocs) *)

Wrote(name) == \E n \in DOMAIN written : written[n] = name

\* the remap table as the specification gives it
ObservationName(k) ==
    CASE k = "observation.images.scene" -> "observation/image"
      [] k = "observation.images.gripper" -> "observation/wrist_image"
      [] k = "observation.state" -> "observation/state"
      [] OTHER -> k

ActionName(k) == IF k = "action" THEN "actions" ELSE k

\* new is old with the three observation keys renamed and every value kept
ObservationKeysRenamed(old, new) ==
    /\ DictKeys(new) = {ObservationName(k) : k \in DictKeys(old)}
    /\ \A k \in DictKeys(old) : DictGet(new, ObservationName(k)) = DictGet(old, k)

\* new is old with "action" renamed and every value kept
ActionKeyRenamed(old, new) ==
    /\ DictKeys(new) = {ActionName(k) : k \in DictKeys(old)}
    /\ \A k \in DictKeys(old) : DictGet(new, ActionName(k)) = DictGet(old, k)

\* C2: in the config.json a run writes, input_features is the source's input_features
\* with exactly the three observation keys renamed, output_features is the source's
\* with exactly "action" renamed to "actions", every key keeps its value, and every
\* other top-level field is carried through.
C2_ConfigRenames ==
    Wrote("config.json") =>
        LET old == src.config.doc
            new == out.config.doc
        IN /\ DOMAIN new = DOMAIN old
           /\ \A f \in DOMAIN old \ {"input_features", "output_features"} : new[f] = old[f]
           /\ "input_features" \in DOMAIN old =>
                 ObservationKeysRenamed(old["input_features"], new["input_features"])
           /\ "output_features" \in DOMAIN old =>
                 ActionKeyRenamed(old["output_features"], new["output_features"])

\* C5: the second run, whose config.json and policy_preprocessor.json are the ones the
\* first run transformed, writes them back unchanged: transforming twice is
\* transforming once.
C5_RemapIdempotent ==
    run = 2 =>
        /\ Wrote("config.json") => out.config = src.config
        /\ Wrote("policy_preprocessor.json") => out.preprocessor = src.preprocessor

C5_Witness ==
    /\ run = 2
    /\ Wrote("config.json")
    /\ Wrote("policy_preprocessor.json")
    /\ "input_features" \in DOMAIN src.config.doc
    /\ DictHas(src.config.doc["input_features"], "observation/image")
    /\ "output_features" \in DOMAIN src.config.doc
    /\ DictHas(src.config.doc["output_features"], "actions")
    /\ out.config = src.config
    /\ out.preprocessor = src.preprocessor

\* the steps whose features the preprocessor transform may touch
HasFeatures(step) ==
    /\ "registry_name" \in DOMAIN step
    /\ step["registry_name"] = "normalizer_processor"
    /\ "config" \in DOMAIN step
    /\ "features" \in DOMAIN step["config"]

\* new is old but for the keys of config.features, which are renamed by the three
\* observation renames; a key whose new name no other key takes keeps its value
OnlyFeatureKeysRenamed(old, new) ==
    /\ DOMAIN new = DOMAIN old
    /\ \A f \in DOMAIN old \ {"config"} : new[f] = old[f]
    /\ DOMAIN new["config"] = DOMAIN old["config"]
    /\ \A g \in DOMAIN old["config"] \ {"features"} : new["config"][g] = old["config"][g]
    /\ LET oldF == old["config"]["features"]
           newF == new["config"]["features"]
       IN /\ DictKeys(newF) = {ObservationName(k) : k \in DictKeys(oldF)}
          /\ \A k \in DictKeys(oldF) :
                (\A k2 \in DictKeys(oldF) \ {k} : ObservationName(k2) # ObservationName(k))
                    => DictGet(newF, ObservationName(k)) = DictGet(oldF, k)

----------------------------------------------------------------------------
(* The file system: claims C6, C7, C10 (specification Spec) *)

\* the tensor file the specification says the run reads
ExpectedFile ==
    IF is_dir(input_path) THEN input_path \o <<"model.safetensors">> ELSE input_path

ExpectedFileMissing == ExpectedFile[Len(ExpectedFile)] \notin DOMAIN src.arch

\* C6: the tensor file is input_path/model.safetensors for a directory and input_path
\* itself otherwise; when that file does not exist the run ends in FileNotFoundError
\* with the output directory exactly as it was before the run: not created, nothing
\* written to it.
C6_MissingInput ==
    pc # "resolve" =>
        /\ input_file = ExpectedFile
        /\ ExpectedFileMissing =>
              /\ pc = "failed"
              /\ err = "FileNotFoundError"
              /\ out = out0
              /\ written = <<>>

C6_Witness ==
    /\ pc = "failed"
    /\ err = "FileNotFoundError"
    /\ is_dir(input_path)
    /\ DOMAIN src.arch = {"pi0.safetensors"}
    /\ src.config.exists
    /\ out0 = NoDir
    /\ out = NoDir

CompanionNames ==
    {"config.json", "policy_preprocessor.json", "assets"} \cup
    { "train_config.json",
      "policy_postprocessor.json",
      "policy_preprocessor_step_2_normalizer_processor.safetensors",
      "policy_postprocessor_step_0_unnormalizer_processor.safetensors" }

\* what directory d holds under a companion's name
Entry(d, name) ==
    CASE name = "config.json" -> d.config
      [] name = "policy_preprocessor.json" -> d.preprocessor
      [] name = "assets" -> d.assets
      [] OTHER -> [exists |-> d.aux[name] # "none", bytes |-> d.aux[name]]

\* C7 (the part of it that holds whatever the output directory held): a run fails
\* only for a missing tensor file or an unparseable JSON document, never for an
\* absent companion, and no step before the end blocks; after completion every
\* companion present in the source exists in the output.
C7_Completes ==
    /\ pc = "failed" =>
          \/ err = "FileNotFoundError" /\ ExpectedFileMissing
          \/ err = "JSONDecodeError" /\ (src.config = Malformed \/ src.preprocessor = Malformed)
    /\ pc \notin {"done", "failed"} => ENABLED Next
    /\ pc = "done" =>
          \A name \in CompanionNames :
              Entry(src, name).exists => Entry(out, name).exists

\* C7 as claimed: after completion each absent companion is absent from the output
\* directory and each present one exists there.
C7_AbsentStaysAbsent ==
    /\ C7_Completes
    /\ pc = "done" =>
          \A name \in CompanionNames :
              ~Entry(src, name).exists => ~Entry(out, name).exists

\* C7 as amended: after completion each absent companion is in the output directory
\* exactly what it was before the run (absent if it was absent, the earlier file if
\* one was there), and each present one exists there.
C7_AbsentLeftAlone ==
    /\ C7_Completes
    /\ pc = "done" =>
          \A name \in CompanionNames :
              ~Entry(src, name).exists => Entry(out, name) = Entry(out0, name)

C7_Witness ==
    /\ pc = "done"
    /\ run = 1
    /\ out0 = StaleDir
    /\ \A name \in CompanionNames : ~Entry(src, name).exists
    /\ \A name \in CompanionNames : Entry(out, name) = Entry(StaleDir, name)
    /\ out.model.data # StaleDir.model.data

\* the outputs of a run, in the order the specification gives
OutputOrder ==
    << "output_dir",
       "model.safetensors",
       "config.json",
       "policy_preprocessor.json",
       "train_config.json",
       "policy_postprocessor.json",
       "policy_preprocessor_step_2_normalizer_processor.safetensors",
       "policy_postprocessor_step_0_unnormalizer_processor.safetensors",
       "assets" >>

HasSource(name) ==
    name \in {"output_dir", "model.safetensors"} \/ Entry(src, name).exists

InOutput(name) ==
    CASE name = "output_dir" -> out.exists
      [] name = "model.safetensors" -> out.model.exists
      [] OTHER -> Entry(out, name).exists

IsPrefix(p, q) == Len(p) <= Len(q) /\ \A n \in DOMAIN p : p[n] = q[n]

\* C10: at every point of a run, interrupted, failed or complete, the outputs it has
\* produced so far are an initial part of the fixed sequence (directory, tensor
\* archive, config.json, policy_preprocessor.json, the auxiliary files in list order,
\* assets) restricted to the outputs that have a source; each of them is in the output
\* directory, also after a failure; the tensor archive is what the run converted.
C10_FixedOrder ==
    /\ IsPrefix(written, SelectSeq(OutputOrder, HasSource))
    /\ \A n \in DOMAIN written : InOutput(written[n])
    /\ Wrote("model.safetensors") => out.model.data = SaveFile(converted_state_dict)
    /\ pc = "done" => written = SelectSeq(OutputOrder, HasSource)

C10_Witness ==
    /\ pc = "failed"
    /\ err = "JSONDecodeError"
    /\ written = <<"output_dir", "model.safetensors", "config.json">>
    /\ src.preprocessor = Malformed
    /\ src.aux["train_config.json"] # "none"
    /\ out0 = NoDir
    /\ out.config.exists
    /\ out.model.exists
    /\ ~Entry(out, "train_config.json").exists

====
